---------------------------- MODULE Spec2Model ----------------------------
(***************************************************************************)
(* A model of bioc-converter: the resumable batch driver                   *)
(* (BiocProcessor.process_and_save), the span normalizer                   *)
(* (remove_overlapping_spans), the offset projection                       *)
(* (create_sentence_annotations, process_passage_to_sentences), the        *)
(* section assigner (group_sentence_annotations_by_section), the section   *)
(* filter (normalize_section_name) and the loader (load_bioc_document,     *)
(* merge_consecutive_sections).                                            *)
(*                                                                         *)
(* Strings are sequences of one-character strings, so that the file naming *)
(* (_sanitize_filename, _save_section_file) and its inversion              *)
(* (_get_existing_doc_ids) are computed character by character.            *)
(***************************************************************************)
EXTENDS Integers, Sequences, FiniteSets, TLC

(***************************************************************************)
(* Bounds of the model.                                                    *)
(***************************************************************************)
\* number of process_and_save runs (a run ends by returning or by being killed)
MaxRuns == 2

\* longest explicit document_ids argument
MaxReq == 2

\* largest character offset of a span given to remove_overlapping_spans
MaxPos == 2

\* longest list of spans given to remove_overlapping_spans
MaxSpans == 3

\* length of the text whose sentences annotations are projected onto
TextLen == 3

\* most sentences the sentence splitter returns for that text
MaxSents == 2

\* most annotations of the projected text
MaxAnns == 2

\* largest offset of a section range or of a sentence to assign
MaxOff == 3

\* most section ranges in sections_info
MaxRanges == 2

\* most sentences given to group_sentence_annotations_by_section
MaxGroupSents == 2

\* most passages of the document that is loaded
MaxPassages == 3

\* largest declared offset of a passage
MaxDeclared == 2

\* longest passage text
MaxPassageLen == 2

\* longest section-type hint of a passage and longest allow-list entry
MaxHintLen == 2

\* most entries of allowed_sections
MaxAllowed == 2

(***************************************************************************)
(* Generic helpers.                                                        *)
(***************************************************************************)
Range(s) == {s[i] : i \in 1..Len(s)}

SeqsUpTo(S, n) == UNION {[1..k -> S] : k \in 0..n}

Last(s) == s[Len(s)]

(***************************************************************************)
(* Characters and str.lower().                                             *)
(***************************************************************************)
UpperChars ==
  <<"A","B","C","D","E","F","G","H","I","J","K","L","M",
    "N","O","P","Q","R","S","T","U","V","W","X","Y","Z">>

LowerChars ==
  <<"a","b","c","d","e","f","g","h","i","j","k","l","m",
    "n","o","p","q","r","s","t","u","v","w","x","y","z">>

Digits == {"0","1","2","3","4","5","6","7","8","9"}

LowerChar(c) ==
  IF \E i \in 1..Len(UpperChars) : UpperChars[i] = c
  THEN LowerChars[CHOOSE i \in 1..Len(UpperChars) : UpperChars[i] = c]
  ELSE c

lower(s) == [i \in 1..Len(s) |-> LowerChar(s[i])]

(***************************************************************************)
(* BiocProcessor._sanitize_filename                                        *)
(*   re.sub(r"[^a-z0-9_-]+", "_", name.lower()).strip("_") or "unknown"    *)
(***************************************************************************)
\* the character class [a-z0-9_-]
SafeChar(c) == c \in Range(LowerChars) \cup Digits \cup {"_", "-"}

\* re.sub: every maximal run of characters outside the class becomes one "_"
RECURSIVE ReSubUnsafe(_, _)
ReSubUnsafe(s, inRun) ==
  IF s = <<>> THEN <<>>
  ELSE IF SafeChar(Head(s)) THEN <<Head(s)>> \o ReSubUnsafe(Tail(s), FALSE)
  ELSE IF inRun THEN ReSubUnsafe(Tail(s), TRUE)
  ELSE <<"_">> \o ReSubUnsafe(Tail(s), TRUE)

RECURSIVE LStrip(_)
LStrip(s) ==
  IF s # <<>> /\ Head(s) = "_" THEN LStrip(Tail(s)) ELSE s

RECURSIVE RStrip(_)
RStrip(s) ==
  IF s # <<>> /\ Last(s) = "_" THEN RStrip(SubSeq(s, 1, Len(s) - 1)) ELSE s

\* str.strip("_")
strip(s) == RStrip(LStrip(s))

unknown == <<"u","n","k","n","o","w","n">>

sanitize_filename(name) ==
  LET safe_name == strip(ReSubUnsafe(lower(name), FALSE))
  IN  IF safe_name = <<>> THEN unknown ELSE safe_name

(***************************************************************************)
(* The name _save_section_file gives the file of (doc_id, section_name):   *)
(* f"{doc_id_safe}_{section_safe}.json".  A file is modelled by its stem;  *)
(* every file so named matches the glob "*.json".                          *)
(***************************************************************************)
filename(doc_id, section_name) ==
  sanitize_filename(doc_id) \o <<"_">> \o sanitize_filename(section_name)

(***************************************************************************)
(* filename.rsplit("_", 1)[0]: everything before the last underscore, the  *)
(* whole name when it has none.                                            *)
(***************************************************************************)
rsplit_head(name) ==
  IF \E i \in 1..Len(name) : name[i] = "_"
  THEN LET k == CHOOSE i \in 1..Len(name) :
                  /\ name[i] = "_"
                  /\ \A j \in (i+1)..Len(name) : name[j] # "_"
       IN  SubSeq(name, 1, k - 1)
  ELSE name


(***************************************************************************)
(* The BioC collection: self._document_ids and, for every document, the    *)
(* section names its per-section conversion yields, in dict order          *)
(* (process_bioc_by_sections; a document whose passages are all empty      *)
(* yields no section).                                                     *)
(***************************************************************************)
Doc1 == <<"1">>

Doc2 == <<"2">>

\* an id that is in no collection
DocMissing == <<"9">>

TITLE == <<"T">>

\* a section type with an underscore, such as PMC's ACK_FUND
ACK_FUND == <<"A","_","F">>

combined == <<"c","o","m","b","i","n","e","d">>

SectionLists == { <<>>, <<TITLE>>, <<ACK_FUND>>, <<TITLE, ACK_FUND>> }

CollectionIds == { <<Doc1, Doc2>> }

VARIABLES
  self_document_ids,  \* BiocProcessor._document_ids
  doc_sections,       \* document id -> section names of its conversion
  files,              \* the output directory: file stem -> what was written
  archive,            \* stems bundled in bioc_collection.tar.gz, if created
  runNo,              \* number of process_and_save calls so far
  pc,                 \* position of the current call
  document_ids,       \* argument: [given, ids]; given = FALSE is None
  resume,             \* argument
  by_sections,        \* argument
  ids_to_process,
  skipped_ids,
  idx,                \* enumerate index of the document at hand
  result,             \* sections of the converted document not yet saved
  saved_files,
  processed_count,
  failed_count,
  progress,           \* calls received by on_progress: <<idx, total, id, status>>
  files_at_start,     \* history: the directory when the call started
  process_calls,      \* history: calls of self.process: [doc_id, raised]
  save_calls,         \* history: calls of _save_section_file: [idx, doc_id, section_name, ok]
  in_flight,          \* history: document in flight when the last call was killed
  call,               \* the pure function that has been applied, "none" before
  spans,              \* remove_overlapping_spans: argument
  non_overlapping_spans, \* remove_overlapping_spans: return value
  doc_sents,          \* doc.sents of the sentence splitter: [start_char, end_char]
  annotations,        \* annotation spans <<begin, end, label>> of the text
  passage_offset,     \* process_passage_to_sentences: argument
  sentences_out,      \* sentences with their projected annotations
  sections_info,      \* group_sentence_annotations_by_section: argument
  sentence_annotations, \* group_sentence_annotations_by_section: argument
  grouped,            \* group_sentence_annotations_by_section: return value
  passages,           \* target_doc.passages as read from the BioC file
  config_json,        \* the section filter as written by the user
  section_config,     \* the section filter given to the loader: [given, ...]
  section_type,       \* normalize_section_name: argument
  normalized_section, \* normalize_section_name: return value
  lpc,                \* position of the current load_bioc_document call
  sorted_passages,
  passage_idx,        \* enumerate index (from 0) of the passage at hand
  full_text,          \* ''.join(full_text_parts), a sequence of characters
  current_length,
  metadata_sections,
  loaded_annotations, \* the local list annotations of load_bioc_document
  document,           \* the returned DocumentData, <<>> before the return
  first_document      \* history: what the previous call on the same file returned

batchVars ==
  << self_document_ids, doc_sections, files, archive, runNo, pc, document_ids,
     resume, by_sections, ids_to_process, skipped_ids, idx, result,
     saved_files, processed_count, failed_count, progress, files_at_start,
     process_calls, save_calls, in_flight >>

pureVars ==
  << call, spans, non_overlapping_spans, doc_sents, annotations, passage_offset,
     sentences_out, sections_info, sentence_annotations, grouped >>

loadVars ==
  << passages, config_json, section_config, section_type, normalized_section,
     lpc, sorted_passages, passage_idx, full_text, current_length,
     metadata_sections, loaded_annotations, document, first_document >>

vars == << batchVars, pureVars, loadVars >>

\* section_config=None
NoConfig == [given |-> FALSE, allowed_sections |-> {}, case_sensitive |-> FALSE]

\* the loader is not under study
LoadIdle ==
  /\ passages = <<>>
  /\ config_json = NoConfig
  /\ section_config = NoConfig
  /\ section_type = <<>>
  /\ normalized_section = <<>>
  /\ lpc = "idle"
  /\ sorted_passages = <<>>
  /\ passage_idx = 0
  /\ full_text = <<>>
  /\ current_length = 0
  /\ metadata_sections = <<>>
  /\ loaded_annotations = <<>>
  /\ document = <<>>
  /\ first_document = <<>>

NoFiles == [n \in {} |-> 0]

(***************************************************************************)
(* BiocProcessor._get_existing_doc_ids: for every *.json file, the first   *)
(* document id of the collection whose raw or sanitized form equals the    *)
(* part of the stem before its last underscore.                            *)
(***************************************************************************)
MatchesDoc(potential_doc_id, doc_id) ==
  \/ potential_doc_id = sanitize_filename(doc_id)
  \/ potential_doc_id = doc_id

\* the ids the loop over self._document_ids adds for one file (stops at the first)
AttributedTo(name, ids) ==
  LET potential_doc_id == rsplit_head(name)
      hits == {i \in 1..Len(ids) : MatchesDoc(potential_doc_id, ids[i])}
  IN  IF hits = {} THEN {}
      ELSE {ids[CHOOSE i \in hits : \A j \in hits : i <= j]}

get_existing_doc_ids(dir, ids) ==
  UNION {AttributedTo(name, ids) : name \in DOMAIN dir}

(***************************************************************************)
(* BiocProcessor.process: ValueError for an id outside the collection,     *)
(* otherwise the sections (by_sections) or the one combined document.      *)
(***************************************************************************)
InCollection(doc_id) == doc_id \in Range(self_document_ids)

ProcessResult(doc_id, bySections) ==
  IF bySections THEN doc_sections[doc_id] ELSE <<combined>>

(***************************************************************************)
(* process_and_save, lines 418-451: the ids to process, the single scan of *)
(* the output directory, the counters.                                     *)
(***************************************************************************)
Requested(arg) ==
  IF arg.given /\ arg.ids # <<>> THEN arg.ids ELSE self_document_ids

ExistingIds(res, dir) ==
  IF res THEN get_existing_doc_ids(dir, self_document_ids) ELSE {}

IdsToProcess(requested, existing_ids) ==
  LET keep(doc_id) == doc_id \notin existing_ids
  IN  SelectSeq(requested, keep)

DocumentIdsArgs ==
  {[given |-> FALSE, ids |-> <<>>]} \cup
  {[given |-> TRUE, ids |-> s] :
     s \in SeqsUpTo(Range(self_document_ids), MaxReq) \cup {<<DocMissing>>}}

StartRun(arg, res, bySec) ==
  /\ pc \in {"idle", "done", "killed", "raised"}
  /\ runNo < MaxRuns
  /\ runNo' = runNo + 1
  /\ document_ids' = arg
  /\ resume' = res
  /\ by_sections' = bySec
  /\ files_at_start' = files
  /\ LET requested == Requested(arg)
         existing_ids == ExistingIds(res, files)
     IN  IF requested = <<>>
         THEN /\ pc' = "done"
              /\ ids_to_process' = <<>>
              /\ skipped_ids' = {}
         ELSE /\ pc' = "loop"
              /\ ids_to_process' = IdsToProcess(requested, existing_ids)
              /\ skipped_ids' = Range(requested) \cap existing_ids
  /\ idx' = 1
  /\ result' = <<>>
  /\ saved_files' = <<>>
  /\ processed_count' = 0
  /\ failed_count' = 0
  /\ progress' = <<>>
  /\ process_calls' = <<>>
  /\ save_calls' = <<>>
  /\ UNCHANGED << self_document_ids, doc_sections, files, archive, in_flight >>
  /\ UNCHANGED pureVars
  /\ UNCHANGED loadVars

(***************************************************************************)
(* One iteration of the loop, lines 453-500.                               *)
(***************************************************************************)
total_to_process == Len(ids_to_process)

\* a driver that keeps the result for later instead of saving it now
AfterProcess_Deferred(sections) == "report"

\* where the call goes after self.process returned a result
AfterProcess(sections) == IF sections # <<>> THEN "save" ELSE "report"

\* a driver without the try/except: the exception leaves process_and_save
AfterFailure_Propagates == "raised"

\* where the call goes after the except branch reported a failure
AfterFailure == "loop"

\* self.process raised: lines 493-500
ProcessFails ==
  /\ pc = "loop"
  /\ idx <= total_to_process
  /\ LET doc_id == ids_to_process[idx]
     IN  /\ process_calls' = Append(process_calls, [doc_id |-> doc_id, raised |-> TRUE])
         /\ failed_count' = failed_count + 1
         /\ progress' = Append(progress, <<idx, total_to_process, doc_id, "failed">>)
  /\ pc' = AfterFailure
  /\ idx' = idx + 1
  /\ UNCHANGED << self_document_ids, doc_sections, files, archive, runNo,
                  document_ids, resume, by_sections, ids_to_process,
                  skipped_ids, result, saved_files, processed_count,
                  files_at_start, save_calls, in_flight >>
  /\ UNCHANGED pureVars
  /\ UNCHANGED loadVars

\* self.process returned: line 456
ProcessReturns ==
  /\ pc = "loop"
  /\ idx <= total_to_process
  /\ InCollection(ids_to_process[idx])
  /\ LET doc_id == ids_to_process[idx]
         sections == ProcessResult(doc_id, by_sections)
     IN  /\ process_calls' = Append(process_calls, [doc_id |-> doc_id, raised |-> FALSE])
         /\ result' = sections
         /\ pc' = AfterProcess(sections)
  /\ UNCHANGED << self_document_ids, doc_sections, files, archive, runNo,
                  document_ids, resume, by_sections, ids_to_process,
                  skipped_ids, idx, saved_files, processed_count, failed_count,
                  progress, files_at_start, save_calls, in_flight >>
  /\ UNCHANGED pureVars
  /\ UNCHANGED loadVars

(***************************************************************************)
(* _save_section_file for the next section of the result, lines 459-480    *)
(* and 574-608: open(file_path, "w") replaces a file of the same name; an  *)
(* exception while serializing or writing is swallowed and None returned.  *)
(***************************************************************************)
\* a writer that leaves a file of the same name as it is
WriteFile_KeepExisting(dir, name, content) ==
  [n \in DOMAIN dir \cup {name} |-> IF n \in DOMAIN dir THEN dir[n] ELSE content]

\* open(file_path, "w") and json.dump: lines 588-589
WriteFile(dir, name, content) ==
  [n \in DOMAIN dir \cup {name} |-> IF n = name THEN content ELSE dir[n]]

SaveSection(ok) ==
  /\ pc = "save"
  /\ result # <<>>
  /\ LET doc_id == ids_to_process[idx]
         section_name == Head(result)
         file_path == filename(doc_id, section_name)
     IN  /\ save_calls' = Append(save_calls,
               [idx |-> idx, doc_id |-> doc_id, section_name |-> section_name,
                ok |-> ok])
         /\ IF ok
            THEN /\ files' = WriteFile(files, file_path,
                       [doc_id |-> doc_id, section_name |-> section_name, run |-> runNo])
                 /\ saved_files' = Append(saved_files, file_path)
            ELSE UNCHANGED << files, saved_files >>
  /\ result' = Tail(result)
  /\ pc' = IF Tail(result) = <<>> THEN "report" ELSE "save"
  /\ UNCHANGED << self_document_ids, doc_sections, archive, runNo,
                  document_ids, resume, by_sections, ids_to_process,
                  skipped_ids, idx, processed_count, failed_count, progress,
                  files_at_start, process_calls, in_flight >>
  /\ UNCHANGED pureVars
  /\ UNCHANGED loadVars

\* lines 482-491
Report ==
  /\ pc = "report"
  /\ processed_count' = processed_count + 1
  /\ progress' = Append(progress,
        <<idx, total_to_process, ids_to_process[idx], "processed">>)
  /\ idx' = idx + 1
  /\ pc' = "loop"
  /\ UNCHANGED << self_document_ids, doc_sections, files, archive, runNo,
                  document_ids, resume, by_sections, ids_to_process,
                  skipped_ids, result, saved_files, failed_count,
                  files_at_start, process_calls, save_calls, in_flight >>
  /\ UNCHANGED pureVars
  /\ UNCHANGED loadVars

(***************************************************************************)
(* After the loop, lines 502-515, and _create_archive: the archive holds   *)
(* the files of saved_files; a failure to create it is swallowed.          *)
(***************************************************************************)
archive_name ==
  <<"b","i","o","c","_","c","o","l","l","e","c","t","i","o","n",
    ".","t","a","r",".","g","z">>

Finish(compress, archiveOk) ==
  /\ pc = "loop"
  /\ idx > total_to_process
  /\ IF compress /\ saved_files # <<>> /\ archiveOk
     THEN /\ archive' = Range(saved_files)
          /\ saved_files' = Append(saved_files, archive_name)
     ELSE UNCHANGED << archive, saved_files >>
  /\ pc' = "done"
  /\ in_flight' = {}
  /\ UNCHANGED << self_document_ids, doc_sections, files, runNo,
                  document_ids, resume, by_sections, ids_to_process,
                  skipped_ids, idx, result, processed_count, failed_count,
                  progress, files_at_start, process_calls, save_calls >>
  /\ UNCHANGED pureVars
  /\ UNCHANGED loadVars

(***************************************************************************)
(* The process is killed (KeyboardInterrupt is no Exception, so line 493   *)
(* does not catch it): everything in memory is lost, the directory stays.  *)
(* A document is in flight when its result is only partly saved.           *)
(***************************************************************************)
Interrupt ==
  /\ pc \in {"loop", "save", "report"}
  /\ pc' = "killed"
  /\ in_flight' = IF pc = "save" THEN {ids_to_process[idx]} ELSE {}
  /\ UNCHANGED << self_document_ids, doc_sections, files, archive, runNo,
                  document_ids, resume, by_sections, ids_to_process,
                  skipped_ids, idx, result, saved_files, processed_count,
                  failed_count, progress, files_at_start, process_calls,
                  save_calls >>
  /\ UNCHANGED pureVars
  /\ UNCHANGED loadVars

\* no pure function is under study
PureIdle ==
  /\ call = "none"
  /\ spans = <<>>
  /\ non_overlapping_spans = <<>>
  /\ doc_sents = <<>>
  /\ annotations = <<>>
  /\ passage_offset = 0
  /\ sentences_out = <<>>
  /\ sections_info = <<>>
  /\ sentence_annotations = <<>>
  /\ grouped = <<>>

Init ==
  /\ self_document_ids \in CollectionIds
  /\ doc_sections \in [Range(self_document_ids) -> SectionLists]
  /\ files = NoFiles
  /\ archive = {}
  /\ runNo = 0
  /\ pc = "idle"
  /\ document_ids = [given |-> FALSE, ids |-> <<>>]
  /\ resume = FALSE
  /\ by_sections = FALSE
  /\ ids_to_process = <<>>
  /\ skipped_ids = {}
  /\ idx = 1
  /\ result = <<>>
  /\ saved_files = <<>>
  /\ processed_count = 0
  /\ failed_count = 0
  /\ progress = <<>>
  /\ files_at_start = NoFiles
  /\ process_calls = <<>>
  /\ save_calls = <<>>
  /\ in_flight = {}
  /\ PureIdle
  /\ LoadIdle

Next ==
  \/ \E arg \in DocumentIdsArgs, res \in BOOLEAN, bySec \in BOOLEAN :
       StartRun(arg, res, bySec)
  \/ ProcessFails
  \/ ProcessReturns
  \/ \E ok \in BOOLEAN : SaveSection(ok)
  \/ Report
  \/ \E compress \in BOOLEAN, archiveOk \in BOOLEAN : Finish(compress, archiveOk)
  \/ Interrupt

Spec == Init /\ [][Next]_vars


(***************************************************************************)
(* Properties of the batch driver.                                         *)
(***************************************************************************)
Running == pc \in {"loop", "save", "report"}

\* the directory dir holds a file that was written for doc_id
HasOutputFile(doc_id, dir) == \E n \in DOMAIN dir : dir[n].doc_id = doc_id

ConvertedIds == {process_calls[i].doc_id : i \in 1..Len(process_calls)}

\* C1: with resume=True, no document that had an output file when the run
\* started is passed to self.process, and when the run returns every
\* requested document that had none has been passed to it.
C1_ResumeConvertsExactlyUnsaved ==
  (resume /\ (Running \/ pc = "done")) =>
     /\ \A d \in ConvertedIds : ~HasOutputFile(d, files_at_start)
     /\ pc = "done" =>
          \A d \in Range(Requested(document_ids)) :
             ~HasOutputFile(d, files_at_start) => d \in ConvertedIds

\* C2: a document that was in flight (result only partly saved) when the
\* previous run was killed is converted again by the next run with
\* resume=True that requests it.
C2_InFlightIsReprocessed ==
  (Running /\ resume /\ in_flight \subseteq Range(Requested(document_ids))) =>
     in_flight \subseteq Range(ids_to_process)

\* every section of the result of the idx-th document went through
\* _save_section_file, and each write that succeeded is in the directory
SavedAt(i) ==
  LET doc_id == ids_to_process[i]
  IN  \A s \in Range(ProcessResult(doc_id, by_sections)) :
        \E k \in 1..Len(save_calls) :
           /\ save_calls[k].idx = i
           /\ save_calls[k].doc_id = doc_id
           /\ save_calls[k].section_name = s
           /\ save_calls[k].ok =>
                /\ filename(doc_id, s) \in DOMAIN files
                /\ files[filename(doc_id, s)].run = runNo

\* C3: a document whose conversion raises is reported as 'failed', the
\* exception does not leave process_and_save, and when the run returns every
\* document to process has been converted, and saved unless it raised.
C3_FailureIsIsolated ==
  /\ pc # "raised"
  /\ \A i \in 1..Len(progress) :
        /\ progress[i][3] = ids_to_process[i]
        /\ process_calls[i].raised <=> progress[i][4] = "failed"
  /\ pc = "done" =>
        /\ Len(process_calls) = Len(ids_to_process)
        /\ Len(progress) = Len(ids_to_process)
        /\ \A i \in 1..Len(ids_to_process) :
              /\ process_calls[i].doc_id = ids_to_process[i]
              /\ ~process_calls[i].raised => SavedAt(i)

C3_Witness ==
  /\ pc = "done"
  /\ Len(process_calls) = 2
  /\ process_calls[1].raised
  /\ ~process_calls[2].raised
  /\ progress[1][4] = "failed"
  /\ \E n \in DOMAIN files :
        files[n].doc_id = ids_to_process[2] /\ files[n].run = runNo

\* C4: when the conversion of a document starts, no result is held in
\* memory and every file of the documents converted before it has been
\* written (or its write has failed).
C4_SavedBeforeNextConversion ==
  /\ pc = "loop" => result = <<>>
  /\ \A i \in 1..Len(process_calls) :
        (i < Len(process_calls) \/ pc = "loop") =>
           process_calls[i].raised \/ SavedAt(i)

C4_Witness ==
  /\ Len(process_calls) = 2
  /\ ~process_calls[1].raised
  /\ Len(ProcessResult(ids_to_process[1], by_sections)) = 2
  /\ \A s \in Range(ProcessResult(ids_to_process[1], by_sections)) :
        /\ filename(ids_to_process[1], s) \in DOMAIN files
        /\ files[filename(ids_to_process[1], s)].run = runNo

\* C5: every document reported as 'processed' has a file of its own in the
\* output directory that is in the list the run returns.
C5_ProcessedIsPersisted ==
  \A i \in 1..Len(progress) :
     progress[i][4] = "processed" =>
        \E n \in DOMAIN files :
           /\ files[n].doc_id = progress[i][3]
           /\ n \in Range(saved_files)

\* C6: with resume=True, every file that was in the output directory when
\* the run started is still there with the content it had.
C6_ResumeKeepsExistingFiles ==
  (resume /\ (Running \/ pc = "done")) =>
     \A n \in DOMAIN files_at_start :
        n \in DOMAIN files /\ files[n] = files_at_start[n]


(***************************************************************************)
(* The pure functions are studied each under a specification of its own:   *)
(* Init draws the arguments, one action applies the function.  The batch   *)
(* driver stays idle in these specifications.                              *)
(***************************************************************************)
BatchIdle ==
  /\ self_document_ids = <<>>
  /\ doc_sections = NoFiles
  /\ files = NoFiles
  /\ archive = {}
  /\ runNo = 0
  /\ pc = "idle"
  /\ document_ids = [given |-> FALSE, ids |-> <<>>]
  /\ resume = FALSE
  /\ by_sections = FALSE
  /\ ids_to_process = <<>>
  /\ skipped_ids = {}
  /\ idx = 1
  /\ result = <<>>
  /\ saved_files = <<>>
  /\ processed_count = 0
  /\ failed_count = 0
  /\ progress = <<>>
  /\ files_at_start = NoFiles
  /\ process_calls = <<>>
  /\ save_calls = <<>>
  /\ in_flight = {}

Max(a, b) == IF a >= b THEN a ELSE b

Min(a, b) == IF a <= b THEN a ELSE b

(***************************************************************************)
(* utils.remove_overlapping_spans.  A span is <<begin, end, label>>.       *)
(***************************************************************************)
\* a sort that puts a span before the spans of equal begin
InsertSpan_Unstable(sorted, x) ==
  LET p == Cardinality({i \in 1..Len(sorted) : sorted[i][1] < x[1]})
  IN  SubSeq(sorted, 1, p) \o <<x>> \o SubSeq(sorted, p + 1, Len(sorted))

\* sorted(spans, key=lambda x: x[0]): Python's sort is stable
InsertSpan(sorted, x) ==
  LET p == Cardinality({i \in 1..Len(sorted) : sorted[i][1] <= x[1]})
  IN  SubSeq(sorted, 1, p) \o <<x>> \o SubSeq(sorted, p + 1, Len(sorted))

RECURSIVE sorted_spans(_)
sorted_spans(s) ==
  IF s = <<>> THEN <<>>
  ELSE InsertSpan(sorted_spans(SubSeq(s, 1, Len(s) - 1)), Last(s))

\* a normalizer that compares with the begin of the previous span
NoOverlap_PrevBegin(span, prev_span) == span[1] >= prev_span[1]

\* a normalizer that drops a span that begins where the previous one ends
NoOverlap_Strict(span, prev_span) == span[1] > prev_span[2]

\* line 99: if span[0] >= prev_span[1]
NoOverlap(span, prev_span) == span[1] >= prev_span[2]

\* the loop of lines 93-100 over the rest of the sorted spans
RECURSIVE KeepSpans(_, _)
KeepSpans(rest, kept) ==
  IF rest = <<>> THEN kept
  ELSE LET span == Head(rest)
       IN  IF kept = <<>> THEN KeepSpans(Tail(rest), <<span>>)
           ELSE IF NoOverlap(span, Last(kept))
                THEN KeepSpans(Tail(rest), Append(kept, span))
                ELSE KeepSpans(Tail(rest), kept)

remove_overlapping_spans(s) ==
  IF s = <<>> THEN <<>> ELSE KeepSpans(sorted_spans(s), <<>>)

Labels == {"GENE", "DRUG"}

SpanPool == (0..MaxPos) \X (0..MaxPos) \X Labels

InitSpans ==
  /\ BatchIdle
  /\ LoadIdle
  /\ call = "none"
  /\ \E n \in 0..MaxSpans : spans \in [1..n -> SpanPool]
  /\ non_overlapping_spans = <<>>
  /\ doc_sents = <<>>
  /\ annotations = <<>>
  /\ passage_offset = 0
  /\ sentences_out = <<>>
  /\ sections_info = <<>>
  /\ sentence_annotations = <<>>
  /\ grouped = <<>>

RemoveOverlappingSpans ==
  /\ call = "none"
  /\ call' = "remove_overlapping_spans"
  /\ non_overlapping_spans' = remove_overlapping_spans(spans)
  /\ UNCHANGED << spans, doc_sents, annotations, passage_offset, sentences_out,
                  sections_info, sentence_annotations, grouped >>
  /\ UNCHANGED batchVars
  /\ UNCHANGED loadVars

NextSpans == RemoveOverlappingSpans

SpecSpans == InitSpans /\ [][NextSpans]_vars

\* C7: in the output of remove_overlapping_spans, every span ends at or
\* before the begin of every span after it.
C7_OutputDoesNotOverlap ==
  call = "remove_overlapping_spans" =>
     \A i \in 1..Len(non_overlapping_spans) :
        \A j \in (i + 1)..Len(non_overlapping_spans) :
           non_overlapping_spans[i][2] <= non_overlapping_spans[j][1]

\* an unsorted input with a degenerate span of which three spans are kept
C7_Witness ==
  /\ call = "remove_overlapping_spans"
  /\ Len(non_overlapping_spans) = 3
  /\ Len(spans) = 3
  /\ spans[1][1] > spans[2][1]
  /\ \E i \in 1..3 : spans[i][1] > spans[i][2]

(***************************************************************************)
(* The offset projection: sentence.create_sentence_annotations and         *)
(* sections.process_passage_to_sentences.  A sentence of the splitter is   *)
(* <<start_char, end_char>>; its text is text[start_char:end_char], so     *)
(* len(sent.text) = end_char - start_char.                                 *)
(***************************************************************************)
\* doc.sents: consecutive, non-empty, non-overlapping sentences of the text
IsSents(s) ==
  /\ \A i \in 1..Len(s) : s[i][1] < s[i][2]
  /\ \A i \in 1..(Len(s) - 1) : s[i][2] <= s[i + 1][1]

SentPool == (0..TextLen) \X (0..TextLen)

AnnPool == (0..TextLen) \X (0..TextLen) \X Labels

len_text(sent) == sent[2] - sent[1]

\* utils.format_annotations: the (begin, end, label) tuples of the
\* annotations, without the overlapping ones
format_annotations(anns) ==
  IF anns = <<>> THEN <<>> ELSE remove_overlapping_spans(anns)

\* an overlap test that also takes a span that only touches the sentence
Overlaps_Touching(ann_start, ann_end, sent_start, sent_end) ==
  ann_start <= sent_end /\ ann_end >= sent_start

\* lines 112-115 of sentence.py and 138-141 of sections.py: the overlap test
\* and the offsets relative to the sentence that starts at sent_start
Overlaps(ann_start, ann_end, sent_start, sent_end) ==
  ann_start < sent_end /\ ann_end > sent_start

rel_start(ann_start, sent_start) == Max(0, ann_start - sent_start)

rel_end(ann_end, sent_start, length) == Min(length, ann_end - sent_start)

\* the inner loop of both functions over the annotations of one sentence
RECURSIVE sent_annotations(_, _, _, _)
sent_annotations(anns, sent_start, sent_end, length) ==
  IF anns = <<>> THEN <<>>
  ELSE LET ann  == Head(anns)
           rest == sent_annotations(Tail(anns), sent_start, sent_end, length)
       IN  IF Overlaps(ann[1], ann[2], sent_start, sent_end)
           THEN << << rel_start(ann[1], sent_start),
                      rel_end(ann[2], sent_start, length),
                      ann[3] >> >> \o rest
           ELSE rest

\* sentence.create_sentence_annotations
create_sentence_annotations(sents, anns) ==
  LET entity_spans == format_annotations(anns)
  IN  [i \in 1..Len(sents) |->
         [abs_start   |-> sents[i][1],
          abs_end     |-> sents[i][2],
          length      |-> len_text(sents[i]),
          annotations |-> sent_annotations(entity_spans, sents[i][1],
                                           sents[i][2], len_text(sents[i]))]]

\* a BioC annotation's first location: loc.offset and loc.length
Location(ann) == [offset |-> ann[1], length |-> ann[2] - ann[1]]

\* lines 126-127 of sections.py: ann_abs_start and ann_abs_end of each
\* annotation, read from its location
RECURSIVE AbsoluteSpans(_)
AbsoluteSpans(anns) ==
  IF anns = <<>> THEN <<>>
  ELSE LET loc == Location(Head(anns))
       IN  << << loc.offset, loc.offset + loc.length, Head(anns)[3] >> >>
              \o AbsoluteSpans(Tail(anns))

\* sections.process_passage_to_sentences
process_passage_to_sentences(sents, anns, offset) ==
  [i \in 1..Len(sents) |->
     [abs_start   |-> offset + sents[i][1],
      abs_end     |-> offset + sents[i][2],
      length      |-> len_text(sents[i]),
      annotations |-> sent_annotations(AbsoluteSpans(anns),
                                       offset + sents[i][1],
                                       offset + sents[i][2],
                                       len_text(sents[i]))]]

InitProject ==
  /\ BatchIdle
  /\ LoadIdle
  /\ call = "none"
  /\ spans = <<>>
  /\ non_overlapping_spans = <<>>
  /\ \E n \in 1..MaxSents :
        /\ doc_sents \in [1..n -> SentPool]
        /\ IsSents(doc_sents)
  /\ \E n \in 0..MaxAnns : annotations \in [1..n -> AnnPool]
  /\ passage_offset = 0
  /\ sentences_out = <<>>
  /\ sections_info = <<>>
  /\ sentence_annotations = <<>>
  /\ grouped = <<>>

CreateSentenceAnnotations ==
  /\ call = "none"
  /\ call' = "create_sentence_annotations"
  /\ sentences_out' = create_sentence_annotations(doc_sents, annotations)
  /\ UNCHANGED << spans, non_overlapping_spans, doc_sents, annotations,
                  passage_offset, sections_info, sentence_annotations,
                  grouped >>
  /\ UNCHANGED batchVars
  /\ UNCHANGED loadVars

ProcessPassageToSentences(offset) ==
  /\ call = "none"
  /\ call' = "process_passage_to_sentences"
  /\ passage_offset' = offset
  /\ sentences_out' = process_passage_to_sentences(doc_sents, annotations,
                                                   offset)
  /\ UNCHANGED << spans, non_overlapping_spans, doc_sents, annotations,
                  sections_info, sentence_annotations, grouped >>
  /\ UNCHANGED batchVars
  /\ UNCHANGED loadVars

NextProject ==
  \/ CreateSentenceAnnotations
  \/ \E offset \in 0..1 : ProcessPassageToSentences(offset)

SpecProject == InitProject /\ [][NextProject]_vars

\* C8: every annotation projected onto a sentence by
\* create_sentence_annotations or process_passage_to_sentences satisfies
\* 0 <= rel_begin <= rel_end <= len(sentence.text), whatever the annotation
\* spans are (degenerate ones included).
C8_ProjectionIsContained ==
  call \in {"create_sentence_annotations", "process_passage_to_sentences"} =>
     \A i \in 1..Len(sentences_out) :
        \A k \in 1..Len(sentences_out[i].annotations) :
           LET p == sentences_out[i].annotations[k]
           IN  /\ 0 <= p[1]
               /\ p[1] <= p[2]
               /\ p[2] <= sentences_out[i].length

(***************************************************************************)
(* The section assigner: metadata.group_sentence_annotations_by_section.   *)
(* A section range is [section_type, start, end]; a sentence is            *)
(* [abs_start, abs_end].  grouped is the returned dict in insertion order: *)
(* a sequence of [section_name, sentences], the sentences being positions  *)
(* of the input list (two input sentences may have equal offsets).         *)
(***************************************************************************)
UNLABELED == "UNLABELED"

SectionTypes == {"T", "A", UNLABELED, ""}

SectionPool ==
  { [section_type |-> t, start |-> a, end |-> b] :
       t \in SectionTypes,
       a \in 0..(MaxOff - 1),
       b \in 1..MaxOff }

SentenceOffsets == [abs_start : 0..MaxOff, abs_end : 0..MaxOff]

\* sorted(sections_info, key=lambda section: section.get("start", 0)),
\* a stable sort
InsertSection(sorted, x) ==
  LET p == Cardinality({i \in 1..Len(sorted) : sorted[i].start <= x.start})
  IN  SubSeq(sorted, 1, p) \o <<x>> \o SubSeq(sorted, p + 1, Len(sorted))

RECURSIVE sorted_sections(_)
sorted_sections(s) ==
  IF s = <<>> THEN <<>>
  ELSE InsertSection(sorted_sections(SubSeq(s, 1, Len(s) - 1)), Last(s))

\* section.get("section_type") or "UNLABELED"
section_type_or_unlabeled(section) ==
  IF section.section_type = "" THEN UNLABELED ELSE section.section_type

\* find_section_for_offset over the sorted ranges
RECURSIVE find_section_for_offset(_, _)
find_section_for_offset(sections, offset) ==
  IF sections = <<>> THEN UNLABELED
  ELSE LET section == Head(sections)
       IN  IF section.start <= offset /\ offset < section.end
           THEN section_type_or_unlabeled(section)
           ELSE find_section_for_offset(Tail(sections), offset)

\* lines 119-120: sent_ann.abs_start or 0, sent_ann.abs_end or abs_start
abs_start_of(sent_ann) == sent_ann.abs_start

abs_end_of(sent_ann) ==
  IF sent_ann.abs_end = 0 THEN abs_start_of(sent_ann) ELSE sent_ann.abs_end

\* lines 122-132: the start, then the midpoint, then end - 1
section_name_of(sections, sent_ann) ==
  LET abs_start == abs_start_of(sent_ann)
      abs_end   == abs_end_of(sent_ann)
      by_start  == find_section_for_offset(sections, abs_start)
      by_mid    == IF by_start = UNLABELED
                   THEN find_section_for_offset(sections,
                                                (abs_start + abs_end) \div 2)
                   ELSE by_start
  IN  IF by_mid = UNLABELED /\ abs_end > abs_start
      THEN find_section_for_offset(sections, abs_end - 1)
      ELSE by_mid

\* a grouping that replaces the list of the section by the new sentence
AddToGroup_Overwrite(g, section_name, i) ==
  IF \E k \in 1..Len(g) : g[k].section_name = section_name
  THEN [k \in 1..Len(g) |->
          IF g[k].section_name = section_name
          THEN [g[k] EXCEPT !.sentences = <<i>>]
          ELSE g[k]]
  ELSE Append(g, [section_name |-> section_name, sentences |-> <<i>>])

\* line 134: grouped.setdefault(section_name, []).append(sent_ann)
AddToGroup(g, section_name, i) ==
  IF \E k \in 1..Len(g) : g[k].section_name = section_name
  THEN [k \in 1..Len(g) |->
          IF g[k].section_name = section_name
          THEN [g[k] EXCEPT !.sentences = Append(@, i)]
          ELSE g[k]]
  ELSE Append(g, [section_name |-> section_name, sentences |-> <<i>>])

\* the loop of lines 118-134 over the first n sentences
RECURSIVE GroupSentences(_, _, _)
GroupSentences(sections, sents, n) ==
  IF n = 0 THEN <<>>
  ELSE AddToGroup(GroupSentences(sections, sents, n - 1),
                  section_name_of(sections, sents[n]), n)

group_sentence_annotations_by_section(sents, info) ==
  GroupSentences(sorted_sections(info), sents, Len(sents))

InitAssign ==
  /\ BatchIdle
  /\ LoadIdle
  /\ call = "none"
  /\ spans = <<>>
  /\ non_overlapping_spans = <<>>
  /\ doc_sents = <<>>
  /\ annotations = <<>>
  /\ passage_offset = 0
  /\ sentences_out = <<>>
  /\ \E n \in 0..MaxRanges :
        /\ sections_info \in [1..n -> SectionPool]
        /\ \A i \in 1..n : sections_info[i].start < sections_info[i].end
  /\ \E n \in 0..MaxGroupSents : sentence_annotations \in [1..n -> SentenceOffsets]
  /\ grouped = <<>>

GroupSentenceAnnotationsBySection ==
  /\ call = "none"
  /\ call' = "group_sentence_annotations_by_section"
  /\ grouped' = group_sentence_annotations_by_section(sentence_annotations,
                                                      sections_info)
  /\ UNCHANGED << spans, non_overlapping_spans, doc_sents, annotations,
                  passage_offset, sentences_out, sections_info,
                  sentence_annotations >>
  /\ UNCHANGED batchVars
  /\ UNCHANGED loadVars

NextAssign == GroupSentenceAnnotationsBySection

SpecAssign == InitAssign /\ [][NextAssign]_vars

\* the section names under which input sentence i is grouped
NamesOf(i) ==
  { grouped[g].section_name :
       g \in { h \in 1..Len(grouped) :
                 \E k \in 1..Len(grouped[h].sentences) :
                    grouped[h].sentences[k] = i } }

\* the ranges, in ascending-start order, that contain the start of sentence i
StartMatches(i) ==
  LET sections == sorted_sections(sections_info)
  IN  { r \in 1..Len(sections) :
          /\ sections[r].start <= abs_start_of(sentence_annotations[i])
          /\ abs_start_of(sentence_annotations[i]) < sections[r].end }

\* C9: a sentence whose start offset lies in a section range is assigned the
\* label of the first such range in ascending-start order, whatever label
\* that range carries ("UNLABELED" and the empty label included, the empty
\* label reading as "UNLABELED"); the midpoint and end - 1 play no part.
C9_StartMatchDecides ==
  call = "group_sentence_annotations_by_section" =>
     \A i \in 1..Len(sentence_annotations) :
        StartMatches(i) # {} =>
           LET sections == sorted_sections(sections_info)
               first    == CHOOSE r \in StartMatches(i) :
                              \A q \in StartMatches(i) : r <= q
           IN  NamesOf(i) = { section_type_or_unlabeled(sections[first]) }

\* C10: every input sentence is in exactly one group and there exactly once,
\* no group holds anything but input sentences, no two groups share a label,
\* and the sentences of a group are in input order.
C10_ExactlyOneGroupInOrder ==
  call = "group_sentence_annotations_by_section" =>
     /\ \A i \in 1..Len(sentence_annotations) :
           Cardinality({ gk \in { <<g, k>> : g \in 1..Len(grouped),
                                             k \in 1..MaxGroupSents + 1 } :
                           /\ gk[2] <= Len(grouped[gk[1]].sentences)
                           /\ grouped[gk[1]].sentences[gk[2]] = i }) = 1
     /\ \A g \in 1..Len(grouped) :
           /\ grouped[g].sentences # <<>>
           /\ \A k \in 1..Len(grouped[g].sentences) :
                 grouped[g].sentences[k] \in 1..Len(sentence_annotations)
           /\ \A k \in 1..(Len(grouped[g].sentences) - 1) :
                 grouped[g].sentences[k] < grouped[g].sentences[k + 1]
           /\ \A h \in 1..Len(grouped) :
                 grouped[g].section_name = grouped[h].section_name => g = h

\* two sentences with different offsets fall into the same labelled section,
\* one by its start and the other by a fallback
C10_Witness ==
  /\ call = "group_sentence_annotations_by_section"
  /\ Len(sentence_annotations) = 2
  /\ sentence_annotations[1] # sentence_annotations[2]
  /\ Len(grouped) = 1
  /\ grouped[1].section_name = "A"
  /\ grouped[1].sentences = <<1, 2>>
  /\ StartMatches(1) # {}
  /\ StartMatches(2) = {}

(***************************************************************************)
(* Further properties of the batch driver (specification Spec).            *)
(***************************************************************************)
\* how often doc_id occurs in the list s
Occurrences(s, doc_id) == Cardinality({i \in 1..Len(s) : s[i] = doc_id})

\* the statuses on_progress was called with for doc_id, in call order
StatusesOf(doc_id) ==
  LET of_doc(call_args) == call_args[3] = doc_id
      calls == SelectSeq(progress, of_doc)
  IN  [i \in 1..Len(calls) |-> calls[i][4]]

\* C17: when process_and_save returns, on_progress has been called once for
\* every requested document (once per occurrence in the request), with
\* 'skipped' for a document skipped by resume, 'failed' for one whose
\* conversion raised and 'processed' for one that was converted.
C17_ProgressForEveryDocument ==
  pc = "done" =>
     \A d \in Range(Requested(document_ids)) :
        /\ Len(StatusesOf(d)) = Occurrences(Requested(document_ids), d)
        /\ d \in skipped_ids => Range(StatusesOf(d)) = {"skipped"}
        /\ d \notin skipped_ids =>
              \A i \in 1..Len(process_calls) :
                 process_calls[i].doc_id = d =>
                    progress[i][4] = IF process_calls[i].raised
                                     THEN "failed" ELSE "processed"

\* the files written by the current run
WrittenThisRun == {n \in DOMAIN files : files[n].run = runNo}

\* C18: when document_ids is given, the empty list included, only documents
\* of that list are converted and only for them files are written.
C18_OnlyListedDocuments ==
  ((Running \/ pc = "done") /\ document_ids.given) =>
     /\ ConvertedIds \subseteq Range(document_ids.ids)
     /\ \A n \in WrittenThisRun : files[n].doc_id \in Range(document_ids.ids)

\* C19: with resume=False every requested document is passed to
\* self.process although the directory holds files of it, and every file the
\* run writes successfully holds the output of this run, also when a file of
\* that name was there before.
C19_NoResumeConvertsAndReplaces ==
  (~resume /\ (Running \/ pc = "done")) =>
     /\ ids_to_process = Requested(document_ids)
     /\ pc = "done" => Range(Requested(document_ids)) \subseteq ConvertedIds
     /\ \A k \in 1..Len(save_calls) :
           save_calls[k].ok =>
              LET n == filename(save_calls[k].doc_id, save_calls[k].section_name)
              IN  n \in DOMAIN files /\ files[n].run = runNo

\* a second run with resume=False has converted a document again and has
\* replaced a file that the first run wrote
C19_Witness ==
  /\ pc = "done"
  /\ ~resume
  /\ runNo = 2
  /\ \E n \in DOMAIN files_at_start :
        /\ files_at_start[n].run = 1
        /\ files[n].run = 2
        /\ files[n].doc_id \in ConvertedIds

(***************************************************************************)
(* Further properties of the offset projection (specification SpecProject).*)
(***************************************************************************)
\* the spans the projection loop runs over: the normalized entity_spans in
\* create_sentence_annotations, the located annotations of the passage in
\* process_passage_to_sentences
ProjectedSpans ==
  IF call = "create_sentence_annotations"
  THEN format_annotations(annotations)
  ELSE AbsoluteSpans(annotations)

Clamp(x, lo, hi) == Max(lo, Min(hi, x))

\* the j-th smallest element of the set of numbers S
Nth(S, j) == CHOOSE x \in S : Cardinality({y \in S : y < x}) = j - 1

\* C15: the annotations of a sentence are, in the order of the spans, one
\* projection for each span with span.begin < abs_end and span.end >
\* abs_start and none for any other span (an adjacent one included); its
\* offsets are span.begin - abs_start and span.end - abs_start clamped to
\* [0, len(sentence.text)].  A span overlapping two sentences is in both.
C15_ProjectedExactlyWhenOverlapping ==
  call \in {"create_sentence_annotations", "process_passage_to_sentences"} =>
     \A i \in 1..Len(sentences_out) :
        LET sent == sentences_out[i]
            hits == { k \in 1..Len(ProjectedSpans) :
                        /\ ProjectedSpans[k][1] < sent.abs_end
                        /\ ProjectedSpans[k][2] > sent.abs_start }
        IN  /\ Len(sent.annotations) = Cardinality(hits)
            /\ \A j \in 1..Len(sent.annotations) :
                  LET span == ProjectedSpans[Nth(hits, j)]
                  IN  sent.annotations[j] =
                         << Clamp(span[1] - sent.abs_start, 0, sent.length),
                            Clamp(span[2] - sent.abs_start, 0, sent.length),
                            span[3] >>

\* a span lies across two sentences and is projected into both, clamped at
\* the end of the first and at the start of the second, while another span
\* that ends where the first sentence starts is projected into neither
C15_Witness ==
  /\ call = "process_passage_to_sentences"
  /\ Len(sentences_out) = 2
  /\ Len(annotations) = 2
  /\ Len(sentences_out[1].annotations) = 1
  /\ Len(sentences_out[2].annotations) = 1
  /\ sentences_out[1].annotations[1][2] = sentences_out[1].length
  /\ sentences_out[2].annotations[1][1] = 0
  /\ \E k \in 1..2 : AbsoluteSpans(annotations)[k][2] = sentences_out[1].abs_start
                     /\ AbsoluteSpans(annotations)[k][1] < AbsoluteSpans(annotations)[k][2]

(***************************************************************************)
(* The section filter: loader.load_section_config, is_section_allowed and  *)
(* normalize_section_name.  Section types are sequences of characters; the *)
(* empty sequence stands for a missing or empty hint.  The filter reaches  *)
(* the loader either from a JSON file through load_section_config or as a  *)
(* dict passed as section_config to convert_bioc_to_odinson.               *)
(***************************************************************************)
UpperChar(c) ==
  IF \E i \in 1..Len(LowerChars) : LowerChars[i] = c
  THEN UpperChars[CHOOSE i \in 1..Len(LowerChars) : LowerChars[i] = c]
  ELSE c

\* str.upper()
upper(s) == [i \in 1..Len(s) |-> UpperChar(s[i])]

unlabeled == <<"U","N","L","A","B","E","L","E","D">>

other == <<"O","T","H","E","R">>

HintChars == {"a", "A", "b"}

\* the section types of passages and of allow-lists, the empty one included
Hints == UNION {[1..n -> HintChars] : n \in 0..MaxHintLen}

\* the configurations a user can write: allowed_sections and case_sensitive
ConfigJsons ==
  { [given |-> TRUE, allowed_sections |-> a, case_sensitive |-> c] :
       a \in { x \in SUBSET (Hints \ {<<>>}) : Cardinality(x) <= MaxAllowed },
       c \in BOOLEAN }

\* load_section_config, lines 63-78: the allowed sections are upper-cased
\* when case_sensitive is false
load_section_config(config) ==
  [given |-> TRUE,
   allowed_sections |-> IF config.case_sensitive
                        THEN config.allowed_sections
                        ELSE {upper(a) : a \in config.allowed_sections},
   case_sensitive |-> config.case_sensitive]

\* is_section_allowed, lines 94-106
is_section_allowed(st, config) ==
  IF ~config.given THEN TRUE
  ELSE IF st = <<>> THEN FALSE
  ELSE IF config.case_sensitive THEN st \in config.allowed_sections
  ELSE upper(st) \in config.allowed_sections

\* normalize_section_name, lines 124-133
normalize_section_name(st, config) ==
  IF st = <<>> THEN unlabeled
  ELSE IF ~config.given THEN st
  ELSE IF is_section_allowed(st, config) THEN st
  ELSE other

InitNormalize ==
  /\ BatchIdle
  /\ PureIdle
  /\ passages = <<>>
  /\ config_json \in ConfigJsons
  /\ section_config = NoConfig
  /\ section_type \in Hints
  /\ normalized_section = <<>>
  /\ lpc = "idle"
  /\ sorted_passages = <<>>
  /\ passage_idx = 0
  /\ full_text = <<>>
  /\ current_length = 0
  /\ metadata_sections = <<>>
  /\ loaded_annotations = <<>>
  /\ document = <<>>
  /\ first_document = <<>>

\* what the configuring step leaves alone
ConfigFrame ==
  /\ UNCHANGED << passages, config_json, section_type, normalized_section,
                  sorted_passages, passage_idx, full_text, current_length,
                  metadata_sections, loaded_annotations, document,
                  first_document >>
  /\ UNCHANGED batchVars
  /\ UNCHANGED pureVars

\* converter.py lines 76-77: no section_config and no section_config_path
NoSectionConfig ==
  /\ lpc = "idle"
  /\ lpc' = "configured"
  /\ section_config' = NoConfig
  /\ ConfigFrame

\* converter.py lines 76-77: section_config_path names the user's file
LoadSectionConfig ==
  /\ lpc = "idle"
  /\ lpc' = "configured"
  /\ section_config' = load_section_config(config_json)
  /\ ConfigFrame

\* converter.py lines 38 and 84: the user's dict is passed as section_config
GiveSectionConfig ==
  /\ lpc = "idle"
  /\ lpc' = "configured"
  /\ section_config' = config_json
  /\ ConfigFrame

NormalizeSectionName ==
  /\ lpc = "configured"
  /\ lpc' = "normalized"
  /\ normalized_section' = normalize_section_name(section_type, section_config)
  /\ UNCHANGED << passages, config_json, section_config, section_type,
                  sorted_passages, passage_idx, full_text, current_length,
                  metadata_sections, loaded_annotations, document,
                  first_document >>
  /\ UNCHANGED batchVars
  /\ UNCHANGED pureVars

UNKNOWN == <<"U","N","K","N","O","W","N">>

\* group_passages_by_section, lines 64-75: the key a passage is grouped under
group_section_key(st) == IF st = <<>> THEN UNKNOWN ELSE st

\* process_bioc_by_sections, line 309: the per-section conversion groups the
\* passage; it takes no section_config, whatever the caller has configured.
\* normalized_section holds the label the conversion gave the passage.
GroupPassagesBySection ==
  /\ lpc = "configured"
  /\ lpc' = "grouped"
  /\ normalized_section' = group_section_key(section_type)
  /\ UNCHANGED << passages, config_json, section_config, section_type,
                  sorted_passages, passage_idx, full_text, current_length,
                  metadata_sections, loaded_annotations, document,
                  first_document >>
  /\ UNCHANGED batchVars
  /\ UNCHANGED pureVars

NextNormalize ==
  \/ NoSectionConfig
  \/ LoadSectionConfig
  \/ GiveSectionConfig
  \/ NormalizeSectionName
  \/ GroupPassagesBySection

SpecNormalize == InitNormalize /\ [][NextNormalize]_vars

\* the hint is on the allow-list the user configured
OnAllowList(st, config) ==
  IF config.case_sensitive
  THEN st \in config.allowed_sections
  ELSE \E a \in config.allowed_sections : upper(a) = upper(st)

\* C20: with a filter configured, a section hint is returned unchanged when
\* it is on the allow-list (without regard to case when case_sensitive is
\* false) and "OTHER" is returned otherwise; with no filter, the hint is
\* returned unchanged.  (A missing hint becomes "UNLABELED" before the
\* filter applies.)
C20_FilterKeepsAllowedHints ==
  (lpc = "normalized" /\ section_type # <<>>) =>
     normalized_section =
        IF ~section_config.given THEN section_type
        ELSE IF OnAllowList(section_type, config_json) THEN section_type
        ELSE other

(***************************************************************************)
(* loader.merge_consecutive_sections.  A passage record of                 *)
(* passages_metadata is [section_type, passage_index, start, end, length]; *)
(* a merged section is [section_type, start, end, passage_indices].        *)
(***************************************************************************)
\* lines 158-163 and 171-176
NewSection(passage) ==
  [section_type    |-> passage.section_type,
   start           |-> passage.start,
   end             |-> passage.end,
   passage_indices |-> <<passage.passage_index>>]

\* lines 166-167
ExtendSection(current_section, passage) ==
  [current_section EXCEPT
     !.end = passage.end,
     !.passage_indices = Append(@, passage.passage_index)]

\* a merger that puts every passage into the section at hand
SameSection_Always(current_section, st) == TRUE

\* line 164: current_section["section_type"] == section_type
SameSection(current_section, st) == current_section.section_type = st

\* the loop of lines 153-180; current holds current_section, <<>> for None
RECURSIVE MergeLoop(_, _, _)
MergeLoop(rest, merged_sections, current) ==
  IF rest = <<>> THEN merged_sections \o current
  ELSE LET passage == Head(rest)
       IN  IF current = <<>>
           THEN MergeLoop(Tail(rest), merged_sections, <<NewSection(passage)>>)
           ELSE IF SameSection(current[1], passage.section_type)
           THEN MergeLoop(Tail(rest), merged_sections,
                          <<ExtendSection(current[1], passage)>>)
           ELSE MergeLoop(Tail(rest), merged_sections \o current,
                          <<NewSection(passage)>>)

merge_consecutive_sections(passages_metadata) ==
  IF passages_metadata = <<>> THEN <<>>
  ELSE MergeLoop(passages_metadata, <<>>, <<>>)

(***************************************************************************)
(* loader.load_bioc_document, lines 251-349: the passages of the document  *)
(* are put into one text.  A passage is [offset, text, section_type,       *)
(* annotations]; offset is [given, value], given = FALSE for None; an      *)
(* annotation is <<location.offset, location.length, type>>.  A character  *)
(* is <<k, j>>, the j-th character of passage k of the file, and <<0, 0>>  *)
(* is a space.                                                             *)
(***************************************************************************)
Space == <<0, 0>>

\* " " * n
Spaces(n) == [i \in 1..n |-> Space]

PassageText(k, n) == [j \in 1..n |-> <<k, j>>]

NoOffset == [given |-> FALSE, value |-> 0]

DeclaredOffsets ==
  {NoOffset} \cup {[given |-> TRUE, value |-> v] : v \in 0..MaxDeclared}

\* section_type / section / type of passage.infons; <<>> when there is none
PassageHints == {<<>>, <<"a">>}

\* a passage has no annotation or one that lies on a character of its text,
\* located by its offset in the document
PassageAnnotations(offset, n) ==
  {<<>>} \cup
  IF offset.given
  THEN { << <<offset.value + r, 1, "GENE">> >> : r \in 0..(n - 1) }
  ELSE {}

\* the passages that can stand at position k of the file
PassagePool(k) ==
  UNION { { [offset |-> o, text |-> PassageText(k, n), section_type |-> h,
             annotations |-> a] : a \in PassageAnnotations(o, n) } :
          o \in DeclaredOffsets, n \in 0..MaxPassageLen, h \in PassageHints }

RECURSIVE PassageLists(_)
PassageLists(n) ==
  IF n = 0 THEN {<<>>}
  ELSE {Append(ps, p) : ps \in PassageLists(n - 1), p \in PassagePool(n)}

\* line 258: p.offset if p.offset is not None else 0
SortKey(passage) == IF passage.offset.given THEN passage.offset.value ELSE 0

Orders(n) ==
  {f \in [1..n -> 1..n] : \A i, j \in 1..n : f[i] = f[j] => i = j}

\* a sort that may put passages of equal offset in any order
SortedOrders_Unstable(ps) ==
  { [i \in 1..Len(ps) |-> ps[f[i]]] :
      f \in { g \in Orders(Len(ps)) :
                \A i, j \in 1..Len(ps) :
                   i < j => SortKey(ps[g[i]]) <= SortKey(ps[g[j]]) } }

\* lines 257-259: what sorted() can return; it is stable, so passages of
\* equal key stay in the order of the file and there is one result
SortedOrders(ps) ==
  { [i \in 1..Len(ps) |-> ps[f[i]]] :
      f \in { g \in Orders(Len(ps)) :
                \A i, j \in 1..Len(ps) :
                   i < j => \/ SortKey(ps[g[i]]) < SortKey(ps[g[j]])
                            \/ /\ SortKey(ps[g[i]]) = SortKey(ps[g[j]])
                               /\ g[i] < g[j] } }

\* lines 263-265
PassageOffset(passage, length) ==
  IF passage.offset.given THEN passage.offset.value ELSE length

\* an assembly that never pads
PaddingLength_None(offset, length) == 0

\* lines 268-274: the padding before the passage; none when the passage
\* starts at or before the end of the text
PaddingLength(offset, length) ==
  IF offset > length THEN offset - length ELSE 0

\* an assembly that records the declared offset as the start
PassageStart_Declared(offset, length) == offset

\* line 276: passage_start = current_length, read after the padding
PassageStart(offset, length) == length

\* lines 305-327 for one passage
RECURSIVE ConvertAnnotations(_)
ConvertAnnotations(anns) ==
  IF anns = <<>> THEN <<>>
  ELSE << [begin |-> Head(anns)[1],
           end   |-> Head(anns)[1] + Head(anns)[2],
           obj   |-> Head(anns)[3]] >> \o ConvertAnnotations(Tail(anns))

InitLoad ==
  /\ BatchIdle
  /\ PureIdle
  /\ \E n \in 0..MaxPassages : passages \in PassageLists(n)
  /\ config_json = NoConfig
  /\ section_config = NoConfig
  /\ section_type = <<>>
  /\ normalized_section = <<>>
  /\ lpc = "idle"
  /\ sorted_passages = <<>>
  /\ passage_idx = 0
  /\ full_text = <<>>
  /\ current_length = 0
  /\ metadata_sections = <<>>
  /\ loaded_annotations = <<>>
  /\ document = <<>>
  /\ first_document = <<>>

\* lines 233-259: a call of load_bioc_document on the file; the file is
\* loaded a second time after the first call has returned
StartLoad ==
  /\ \/ lpc = "idle"
     \/ lpc = "returned" /\ first_document = <<>>
  /\ lpc' = "loop"
  /\ first_document' = IF lpc = "returned" THEN <<document>> ELSE <<>>
  /\ sorted_passages' \in SortedOrders(passages)
  /\ passage_idx' = 0
  /\ full_text' = <<>>
  /\ current_length' = 0
  /\ metadata_sections' = <<>>
  /\ loaded_annotations' = <<>>
  /\ document' = <<>>
  /\ UNCHANGED << passages, config_json, section_config, section_type,
                  normalized_section >>
  /\ UNCHANGED batchVars
  /\ UNCHANGED pureVars

\* lines 261-327: one iteration of the loop over sorted_passages
AssemblePassage ==
  /\ lpc = "loop"
  /\ passage_idx < Len(sorted_passages)
  /\ LET bioc_passage   == sorted_passages[passage_idx + 1]
         passage_text   == bioc_passage.text
         passage_offset_ == PassageOffset(bioc_passage, current_length)
         padding_length == PaddingLength(passage_offset_, current_length)
         passage_start  == PassageStart(passage_offset_,
                                        current_length + padding_length)
         passage_end    == current_length + padding_length + Len(passage_text)
     IN  /\ full_text' = full_text \o Spaces(padding_length) \o passage_text
         /\ current_length' = passage_end
         /\ metadata_sections' = Append(metadata_sections,
               [section_type  |-> normalize_section_name(
                                     bioc_passage.section_type, section_config),
                passage_index |-> passage_idx,
                start         |-> passage_start,
                end           |-> passage_end,
                length        |-> passage_end - passage_start])
         /\ loaded_annotations' =
               loaded_annotations \o ConvertAnnotations(bioc_passage.annotations)
  /\ passage_idx' = passage_idx + 1
  /\ UNCHANGED << passages, config_json, section_config, section_type,
                  normalized_section, lpc, sorted_passages, document,
                  first_document >>
  /\ UNCHANGED batchVars
  /\ UNCHANGED pureVars

\* lines 329-349
ReturnDocument ==
  /\ lpc = "loop"
  /\ passage_idx = Len(sorted_passages)
  /\ lpc' = "returned"
  /\ document' =
        [text        |-> full_text,
         annotations |-> loaded_annotations,
         passages    |-> metadata_sections,
         sections    |-> merge_consecutive_sections(metadata_sections)]
  /\ UNCHANGED << passages, config_json, section_config, section_type,
                  normalized_section, sorted_passages, passage_idx, full_text,
                  current_length, metadata_sections, loaded_annotations,
                  first_document >>
  /\ UNCHANGED batchVars
  /\ UNCHANGED pureVars

NextLoad ==
  \/ StartLoad
  \/ AssemblePassage
  \/ ReturnDocument

SpecLoad == InitLoad /\ [][NextLoad]_vars

(***************************************************************************)
(* Properties of the loader (specification SpecLoad).                      *)
(***************************************************************************)
\* the passage_indices of the sections one after the other
RECURSIVE AllPassageIndices(_)
AllPassageIndices(sections) ==
  IF sections = <<>> THEN <<>>
  ELSE Head(sections).passage_indices \o AllPassageIndices(Tail(sections))

\* C11: the merged sections of a loaded document start a new range at the
\* first passage and at every passage whose section type differs from that
\* of the passage before it, and nowhere else; a range carries the type of
\* its passages, the start of its first and the end of its last passage;
\* every passage index is in exactly one range, so two runs of one type
\* with another type between them are two ranges.
C11_MergeOnlyAdjacentPassages ==
  lpc = "returned" =>
     LET M == document.passages
         R == document.sections
     IN  /\ AllPassageIndices(R) = [k \in 1..Len(M) |-> k - 1]
         /\ { R[i].passage_indices[1] : i \in 1..Len(R) } =
               { k \in 0..(Len(M) - 1) :
                   k = 0 \/ M[k + 1].section_type # M[k].section_type }
         /\ \A i \in 1..Len(R) :
               LET ix == R[i].passage_indices
               IN  /\ ix # <<>>
                   /\ \A j \in 1..Len(ix) :
                         M[ix[j] + 1].section_type = R[i].section_type
                   /\ R[i].start = M[ix[1] + 1].start
                   /\ R[i].end = M[ix[Len(ix)] + 1].end

\* three passages of types x, y, x give three ranges, the first and the
\* last with the same type
C11_Witness ==
  /\ lpc = "returned"
  /\ Len(document.sections) = 3
  /\ document.sections[1].section_type = document.sections[3].section_type
  /\ document.sections[1].section_type # document.sections[2].section_type

\* C12: the merged sections of a loaded document have non-decreasing starts
\* and each ends at or before the start of the next, whatever the offsets
\* and texts of the passages are.
C12_SectionsAreOrdered ==
  lpc = "returned" =>
     \A i \in 1..(Len(document.sections) - 1) :
        /\ document.sections[i].start <= document.sections[i + 1].start
        /\ document.sections[i].end <= document.sections[i + 1].start

\* two ranges, the second of a passage that was declared to start inside
\* the text of the first
C12_Witness ==
  /\ lpc = "returned"
  /\ Len(document.sections) >= 2
  /\ \E k \in 2..Len(sorted_passages) :
        /\ sorted_passages[k].offset.given
        /\ sorted_passages[k].offset.value < document.passages[k - 1].end
        /\ document.passages[k].section_type # document.passages[k - 1].section_type
        /\ sorted_passages[k].text # <<>>

\* C13: the passages are taken in ascending order of declared offset; with
\* the cursor at the end of the passage assembled before (0 at first), a
\* passage is recorded with start = max(declared offset, cursor) (the cursor
\* when no offset is declared) and end = start + len(text), and the text
\* becomes the text so far, start - cursor spaces and the passage text.
C13_AssemblyStep ==
  [][ (lpc = "loop" /\ lpc' = "loop") =>
        LET passage == sorted_passages[passage_idx + 1]
            cursor  == IF metadata_sections = <<>> THEN 0
                       ELSE Last(metadata_sections).end
            rec     == Last(metadata_sections')
        IN  /\ \A i \in 1..passage_idx :
                  SortKey(sorted_passages[i]) <= SortKey(passage)
            /\ Len(full_text) = cursor
            /\ rec.start = IF passage.offset.given
                           THEN Max(passage.offset.value, cursor)
                           ELSE cursor
            /\ rec.end = rec.start + Len(passage.text)
            /\ full_text' = full_text \o Spaces(rec.start - cursor)
                                      \o passage.text ]_vars

\* a document with a gap before one passage and an overlap before another
C13_Witness ==
  /\ lpc = "returned"
  /\ \E k \in 2..Len(sorted_passages) :
        /\ document.passages[k].start > document.passages[k - 1].end
        /\ document.text[document.passages[k].start] = Space
  /\ \E k \in 2..Len(sorted_passages) :
        /\ sorted_passages[k].offset.given
        /\ sorted_passages[k].offset.value < document.passages[k - 1].end
        /\ sorted_passages[k].text # <<>>

\* the number of annotations of the first k sorted passages
RECURSIVE AnnotationsUpTo(_)
AnnotationsUpTo(k) ==
  IF k = 0 THEN 0
  ELSE AnnotationsUpTo(k - 1) + Len(sorted_passages[k].annotations)

\* C14: every annotation of a loaded document lies as far from the recorded
\* start of its passage as its location lies from the declared offset of
\* the passage, so it addresses in the merged text the characters it
\* addressed in the passage, also when the passage was moved.
C14_AnnotationsFollowTheirPassage ==
  lpc = "returned" =>
     \A k \in 1..Len(sorted_passages) :
        sorted_passages[k].offset.given =>
           \A m \in 1..Len(sorted_passages[k].annotations) :
              LET location == sorted_passages[k].annotations[m]
                  ann == document.annotations[AnnotationsUpTo(k - 1) + m]
                  within == location[1] - sorted_passages[k].offset.value
              IN  /\ ann.begin - document.passages[k].start = within
                  /\ \A j \in 1..(ann.end - ann.begin) :
                        /\ ann.begin + j <= Len(document.text)
                        /\ document.text[ann.begin + j] =
                              sorted_passages[k].text[within + j]

total_original == Len(Requested(document_ids))

\* C21: when process_and_save returns, the documents counted as processed,
\* as skipped and as failed add up to the number of requested documents.
C21_CountsAddUp ==
  pc = "done" =>
     processed_count + Cardinality(skipped_ids) + failed_count = total_original

\* the run at hand has created the archive: line 506 appended its path
ArchiveCreated ==
  saved_files # <<>> /\ Last(saved_files) = archive_name

\* C22: the archive created at the end of a run holds every output file of
\* the output directory, the files of documents that the run skipped
\* included.
C22_ArchiveHoldsAllOutputs ==
  (pc = "done" /\ ArchiveCreated) => DOMAIN files \subseteq archive

\* C23: every file in the output directory is attributed by
\* _get_existing_doc_ids to the document it was written for and to no
\* other document.
C23_NamingCanBeInverted ==
  \A n \in DOMAIN files :
     AttributedTo(n, self_document_ids) = {files[n].doc_id}

(***************************************************************************)
(* Further properties of remove_overlapping_spans (specification           *)
(* SpecSpans).                                                             *)
(***************************************************************************)
SpansOverlap(a, b) == a[1] < b[2] /\ b[1] < a[2]

\* C24: for two overlapping input spans a and b with a.begin < b.begin, b
\* is not in the output unless a is.
C24_EarlierSpanWins ==
  call = "remove_overlapping_spans" =>
     \A i, j \in 1..Len(spans) :
        (SpansOverlap(spans[i], spans[j]) /\ spans[i][1] < spans[j][1]) =>
           ~ /\ spans[j] \in Range(non_overlapping_spans)
             /\ spans[i] \notin Range(non_overlapping_spans)

\* the list s without its i-th element
RemoveAt(s, i) == SubSeq(s, 1, i - 1) \o SubSeq(s, i + 1, Len(s))

\* the list s without the elements equal to x
Without(s, x) ==
  LET differs(y) == y # x
  IN  SelectSeq(s, differs)

\* C28: taking a degenerate span (begin >= end) out of the input does not
\* change which of the other spans are kept.
C28_DegenerateSpanBlocksNothing ==
  call = "remove_overlapping_spans" =>
     \A i \in 1..Len(spans) :
        spans[i][1] >= spans[i][2] =>
           Without(remove_overlapping_spans(RemoveAt(spans, i)), spans[i]) =
              Without(non_overlapping_spans, spans[i])

\* a degenerate span is kept between two spans that are kept as well, the
\* second beginning where the degenerate span begins
C28_Witness ==
  /\ call = "remove_overlapping_spans"
  /\ Len(spans) = 3
  /\ Len(non_overlapping_spans) = 3
  /\ \E i \in 1..3 :
        /\ spans[i][1] > spans[i][2]
        /\ non_overlapping_spans[2] = spans[i]
        /\ non_overlapping_spans[3][1] = spans[i][1]
        /\ non_overlapping_spans[3][1] < non_overlapping_spans[3][2]

\* the positions 1..n of the input in ascending begin, equal begins in
\* input order
StableOrder(s, g) ==
  \A p, q \in 1..Len(s) :
     p < q => \/ s[g[p]][1] < s[g[q]][1]
              \/ s[g[p]][1] = s[g[q]][1] /\ g[p] < g[q]

\* the sorted positions K are those the greedy rule keeps
GreedyKept(s, g, K) ==
  \A p \in 1..Len(s) :
     p \in K <=>
        LET before == {q \in K : q < p}
        IN  \/ before = {}
            \/ s[g[p]][1] >= s[g[CHOOSE q \in before :
                                     \A r \in before : r <= q]][2]

\* C29: the output is the input in ascending begin (equal begins in input
\* order) reduced to the spans that begin at or after the end of the span
\* kept last, and normalizing the output again returns it unchanged.
C29_GreedyOverStableSort ==
  call = "remove_overlapping_spans" =>
     /\ \E g \in Orders(Len(spans)) :
           /\ StableOrder(spans, g)
           /\ \E K \in SUBSET (1..Len(spans)) :
                 /\ GreedyKept(spans, g, K)
                 /\ non_overlapping_spans =
                       [j \in 1..Cardinality(K) |-> spans[g[Nth(K, j)]]]
     /\ remove_overlapping_spans(non_overlapping_spans) = non_overlapping_spans

\* two spans of equal begin and different labels come in input order, the
\* first is kept and the second dropped, and a third span is kept
C29_Witness ==
  /\ call = "remove_overlapping_spans"
  /\ Len(spans) = 3
  /\ Len(non_overlapping_spans) = 2
  /\ \E i, j \in 1..3 :
        /\ i < j
        /\ spans[i][1] = spans[j][1]
        /\ spans[i][3] # spans[j][3]
        /\ spans[i][2] > spans[i][1]
        /\ non_overlapping_spans[1] = spans[i]
        /\ spans[j] \notin Range(non_overlapping_spans)

(***************************************************************************)
(* The fallbacks of the section assigner (specification SpecAssign).       *)
(***************************************************************************)
\* the ranges, in ascending-start order, that contain offset
RangesContaining(offset) ==
  LET sections == sorted_sections(sections_info)
  IN  { r \in 1..Len(sections) :
          sections[r].start <= offset /\ offset < sections[r].end }

\* the label of the first range, in ascending-start order, containing offset
FirstLabelAt(offset) ==
  LET sections == sorted_sections(sections_info)
      first == CHOOSE r \in RangesContaining(offset) :
                  \A q \in RangesContaining(offset) : r <= q
  IN  section_type_or_unlabeled(sections[first])

\* C25: a sentence whose abs_start lies in no section range gets the label
\* of the first range containing its midpoint (abs_start + abs_end) // 2;
\* when there is none and abs_end > abs_start, the label of the first range
\* containing abs_end - 1; and "UNLABELED" when that fails too.
C25_FallbacksInOrder ==
  call = "group_sentence_annotations_by_section" =>
     \A i \in 1..Len(sentence_annotations) :
        LET abs_start == abs_start_of(sentence_annotations[i])
            abs_end   == abs_end_of(sentence_annotations[i])
            midpoint  == (abs_start + abs_end) \div 2
        IN  RangesContaining(abs_start) = {} =>
               NamesOf(i) =
                  IF RangesContaining(midpoint) # {}
                  THEN {FirstLabelAt(midpoint)}
                  ELSE IF abs_end > abs_start
                          /\ RangesContaining(abs_end - 1) # {}
                  THEN {FirstLabelAt(abs_end - 1)}
                  ELSE {UNLABELED}

(***************************************************************************)
(* Passages without a declared offset (specification SpecLoad).            *)
(***************************************************************************)
\* the place in sorted_passages of the k-th passage of the file
SortedPos(k) ==
  Cardinality({ i \in 1..Len(passages) :
                  \/ SortKey(passages[i]) < SortKey(passages[k])
                  \/ SortKey(passages[i]) = SortKey(passages[k]) /\ i <= k })

\* C26: a passage without a declared offset is assembled after the
\* passages that precede it in the file and starts where the passage right
\* before it in the file ends (at 0 when it is the first), without padding.
C26_MissingOffsetContinues ==
  lpc = "returned" =>
     \A k \in 1..Len(passages) :
        ~passages[k].offset.given =>
           /\ \A i \in 1..(k - 1) : SortedPos(i) < SortedPos(k)
           /\ document.passages[SortedPos(k)].start =
                 IF k = 1 THEN 0
                 ELSE document.passages[SortedPos(k - 1)].end

(***************************************************************************)
(* The label of a passage without a section hint (SpecNormalize).          *)
(***************************************************************************)
\* C27: a passage that carries no section hint is labelled "UNLABELED" by
\* the assembled conversion (normalize_section_name) and by the per-section
\* conversion (group_passages_by_section), with or without a filter.
C27_NoHintIsUnlabeled ==
  (lpc \in {"normalized", "grouped"} /\ section_type = <<>>) =>
     normalized_section = unlabeled

(***************************************************************************)
(* File names of distinct outputs (specification SpecNaming): the batch    *)
(* driver over a collection whose documents have section types that       *)
(* differ in case only, such as "T" and "t".                               *)
(***************************************************************************)
title == <<"t">>

CaseSectionLists == { <<TITLE>>, <<TITLE, title>> }

InitNaming ==
  /\ self_document_ids \in CollectionIds
  /\ doc_sections \in [Range(self_document_ids) -> CaseSectionLists]
  /\ files = NoFiles
  /\ archive = {}
  /\ runNo = 0
  /\ pc = "idle"
  /\ document_ids = [given |-> FALSE, ids |-> <<>>]
  /\ resume = FALSE
  /\ by_sections = FALSE
  /\ ids_to_process = <<>>
  /\ skipped_ids = {}
  /\ idx = 1
  /\ result = <<>>
  /\ saved_files = <<>>
  /\ processed_count = 0
  /\ failed_count = 0
  /\ progress = <<>>
  /\ files_at_start = NoFiles
  /\ process_calls = <<>>
  /\ save_calls = <<>>
  /\ in_flight = {}
  /\ PureIdle
  /\ LoadIdle

SpecNaming == InitNaming /\ [][Next]_vars

\* C30: within one output directory, distinct (document id, section name)
\* pairs are written to distinct files: the file of every output saved in
\* this run still holds that output, none was overwritten by another's.
C30_DistinctPairsDistinctFiles ==
  \A i \in 1..Len(save_calls) :
     save_calls[i].ok =>
        LET file_path == filename(save_calls[i].doc_id,
                                  save_calls[i].section_name)
        IN  /\ file_path \in DOMAIN files
            /\ files[file_path].doc_id = save_calls[i].doc_id
            /\ files[file_path].section_name = save_calls[i].section_name

=============================================================================
